---- MODULE Spec2Model ----
(***************************************************************************)
(* A model of morrowc/rislive:                                             *)
(*   - package trie2 (src/unnamed/part_001): PatriciaTrie, a 256-ary trie  *)
(*     indexed by the bytes of a netblock's address;                       *)
(*   - package main (src/trie.go): Tree / Node with New, Lpm, PrefixLpm,   *)
(*     Insert and Node.Search;                                             *)
(*   - package main (src/rislive.go): the filter checks of RisLive and     *)
(*     RisMessageData, and Listen feeding RisLive.Chan.                    *)
(* Spec runs the trie operations one call at a time, SpecConc runs the     *)
(* PatriciaTrie calls of two goroutines statement by statement, FairWalk   *)
(* runs one goroutine's calls statement by statement under fairness,       *)
(* SpecFilter applies the filter checks, SpecRis runs Listen against a     *)
(* receiver and SpecGet (FairGet, under fairness) runs it against Get.     *)
(* Each leaves the other parts' variables alone.                           *)
(* Addresses are scaled down: an address is a sequence of bytes, a byte    *)
(* has ByteBits bits, an IPv4 address has IPv4len bytes and an IPv6        *)
(* address IPv6len bytes.  A nil pointer or interface is a record          *)
(* [kind |-> "nil"]; a nil net.IP slice is the empty sequence.             *)
(***************************************************************************)
EXTENDS Integers, Sequences, FiniteSets, TLC

VARIABLES
  trie,    \* the PatriciaTrie's nodes: path from the root |-> [isLeaf, ip]
  tree,    \* the Tree built by New: [Root, elements]
  last,    \* the last call made: [op, arg, ret]
  calls,   \* per goroutine, the trie call it is in the middle of (or nil)
  filter,  \* RisLive.Filter
  rmd,     \* the *RisMessageData handed to the checks
  input,   \* the JSON values of the file Listen reads
  lis,     \* the Listen goroutine: where it is, and how far in the input
  chan,    \* RisLive.Chan: the queued messages, and whether it is closed
  records, \* RisLive.Records
  recv,    \* the messages the receiver has taken from Chan, in order, and
           \* whether it has seen the end of the channel
  get      \* the goroutine inside Get: where it is, the message of its
           \* range loop and what it returned

vars == <<trie, tree, last, calls, filter, rmd, input, lis, chan, records, recv, get>>

\* The variables of the parts of the program.
concVars == <<calls>>
filterVars == <<filter, rmd>>
risVars == <<input, lis, chan, records, recv, get>>

\* ---------------------------------------------------------------- bounds

\* Bits of one address byte (Go: 8).
ByteBits == 1
\* Bytes of an IPv4 address (Go net.IPv4len: 4).
IPv4len == 2
\* Bytes of an IPv6 address (Go net.IPv6len: 16).
IPv6len == 4

\* The longest AS path of a message in the inputs.
MaxPathLen == 3
\* The longest AS-path fragment a filter or a caller asks for.
MaxFragLen == 2
\* The most JSON values in the file Listen reads.
MaxInput == 3
\* The largest depth RisLive.Chan is made with (the buffer flag).
MaxBuffer == 2

MaxByteVal == 2 ^ ByteBits - 1
Byte == 0 .. MaxByteVal

Nil == [kind |-> "nil"]

\* ------------------------------------------------------ package net (Go)

\* The prefix of the IPv4-in-IPv6 form of an address (zero bytes, then 0xff
\* bytes), scaled to IPv6len - IPv4len bytes.
v4InV6Prefix ==
  [i \in 1 .. (IPv6len - IPv4len) |->
     IF i <= (IPv6len - IPv4len) \div 2 THEN 0 ELSE MaxByteVal]

\* net.IP.To4: the IPv4len-byte form of an IPv4 address, or nil (<<>>).
To4(ip) ==
  IF Len(ip) = IPv4len THEN ip
  ELSE IF /\ Len(ip) = IPv6len
          /\ SubSeq(ip, 1, IPv6len - IPv4len) = v4InV6Prefix
       THEN SubSeq(ip, IPv6len - IPv4len + 1, IPv6len)
       ELSE <<>>

\* The leading k bits of byte b, the rest cleared (b & mask byte).
KeepBits(b, k) ==
  LET low == 2 ^ (ByteBits - k) IN (b \div low) * low

\* The number of one bits of the mask byte i (from 1) of a mask of `ones` bits.
MaskBits(ones, i) ==
  LET rest == ones - (i - 1) * ByteBits
  IN  IF rest <= 0 THEN 0 ELSE IF rest >= ByteBits THEN ByteBits ELSE rest

\* net.IP.Mask with net.CIDRMask(ones, 8*len(ip)).
Mask(ip, ones) == [i \in 1 .. Len(ip) |-> KeepBits(ip[i], MaskBits(ones, i))]

\* net.ParseIP of a well-formed address: the IPv6len-byte form.
ParseIP(addr) ==
  IF Len(addr) = IPv4len THEN v4InV6Prefix \o addr ELSE addr

\* net.ParseCIDR.  A CIDR string is modelled by what it spells:
\* [addr |-> the address bytes, ones |-> the number after the slash]; a string
\* that spells no address has addr = <<>>.
ParseCIDR(s) ==
  IF \/ Len(s.addr) \notin {IPv4len, IPv6len}
     \/ s.ones < 0
     \/ s.ones > Len(s.addr) * ByteBits
  THEN [ip |-> <<>>, net |-> Nil, err |-> "invalid CIDR address"]
  ELSE [ip  |-> ParseIP(s.addr),
        net |-> [kind |-> "ipnet", IP |-> Mask(s.addr, s.ones), Ones |-> s.ones],
        err |-> "nil"]

\* net.IPNet.Contains, for a network as ParseCIDR returns it (its IP in the
\* To4 form when it is an IPv4 one).  A nil receiver faults in
\* networkNumberAndMask; the callers below model that before they call this.
Contains(n, ip) ==
  LET x == IF To4(ip) # <<>> THEN To4(ip) ELSE ip
  IN  /\ Len(x) = Len(n.IP)
      /\ \A i \in 1 .. Len(x) :
           KeepBits(n.IP[i], MaskBits(n.Ones, i)) = KeepBits(x[i], MaskBits(n.Ones, i))

\* ------------------------------------------------------------ the inputs

\* An address of n bytes that starts with the bytes a and is zero after them.
Pad(a, n) == [i \in 1 .. n |-> IF i <= Len(a) THEN a[i] ELSE 0]

\* The CIDR strings the callers use.  With a first byte 1 for 10 (0x0a) they
\* are what 10.0.0.0/8, 10.0.0.0/16, 10.1.0.0/16, 0.0.0.0/0, a00::/8 and
\* a00::1/128 scale to.
CidrStrings ==
  { [addr |-> Pad(<<1>>, IPv4len), ones |-> ByteBits],
    [addr |-> Pad(<<1>>, IPv4len), ones |-> 2 * ByteBits],
    [addr |-> Pad(<<1, 1>>, IPv4len), ones |-> 2 * ByteBits],
    [addr |-> Pad(<<>>, IPv4len), ones |-> 0],
    [addr |-> Pad(<<1>>, IPv6len), ones |-> ByteBits],
    [addr |-> [Pad(<<1>>, IPv6len) EXCEPT ![IPv6len] = 1],
     ones |-> IPv6len * ByteBits] }

\* The *net.IPNet values handed to the tries: the second result of ParseCIDR.
Netblocks == { ParseCIDR(s).net : s \in CidrStrings }

\* The net.IP values handed to Lpm: nil and the ParseIP of some addresses.
Addresses ==
  { <<>> } \cup
  { ParseIP(a) : a \in { Pad(<<1>>, IPv4len), Pad(<<1, 1>>, IPv4len),
                         Pad(<<0, 1>>, IPv4len),
                         [Pad(<<1>>, IPv6len) EXCEPT ![IPv6len] = 1] } }

\* The root prefixes New is called with.
RootCidrs ==
  { [addr |-> Pad(<<1>>, IPv4len), ones |-> ByteBits],
    [addr |-> Pad(<<>>, IPv4len), ones |-> 0],
    [addr |-> Pad(<<1>>, IPv6len), ones |-> ByteBits] }

\* Strings ParseCIDR rejects: no address, and a length past the address width.
BadCidrs ==
  { [addr |-> <<>>, ones |-> 0],
    [addr |-> Pad(<<1>>, IPv4len), ones |-> IPv4len * ByteBits + 1] }

\* A *net.IPNet built by hand whose mask is longer than its address (an
\* IPv4len-byte IP with the mask of a longer family): address and length do
\* not go together.
MismatchedNetblocks ==
  { [kind |-> "ipnet", IP |-> Pad(<<1>>, IPv4len), Ones |-> IPv4len * ByteBits + 1] }

\* ------------------------------------------- package trie2: PatriciaTrie

\* af: the address family of an address.
af(ip) == IF To4(ip) # <<>> THEN 4 ELSE 6

\* sameFamily.
sameFamily(a, b) == IF af(a.IP) # af(b.IP) THEN FALSE ELSE TRUE

\* &Node{}: no children, isLeaf false, ip nil.
ZeroNode == [isLeaf |-> FALSE, ip |-> Nil]

\* NewPatriciaTrie: a root node and nothing else.  A node is named by the
\* bytes on the path from the root, children[b] of node n being Append(n, b).
NewPatriciaTrie == (<<>> :> ZeroNode)

\* The loop of Insert over the bytes of ip.IP from position i, at `node`.
RECURSIVE InsertWalk(_, _, _, _)
InsertWalk(t, node, bytes, i) ==
  IF i > Len(bytes)
  THEN [t EXCEPT ![node].isLeaf = TRUE]
  ELSE LET child == Append(node, bytes[i])
           t1 == IF child \notin DOMAIN t THEN (child :> ZeroNode) @@ t ELSE t
       IN  InsertWalk(t1, child, bytes, i + 1)

\* PatriciaTrie.Insert: the trie after the call.
Insert(t, ip) == InsertWalk(t, <<>>, ip.IP, 1)

\* A call of PatriciaTrie.Insert: the trie after it and what it returns,
\* which is nothing (the func has no result).
InsertCall(t, ip) == [trie |-> Insert(t, ip), ret |-> [kind |-> "void"]]

\* The loop of GetNetblock over the bytes of netblock.IP.
RECURSIVE GetWalk(_, _, _, _)
GetWalk(t, node, bytes, i) ==
  IF i > Len(bytes)
  THEN [kind |-> "node", node |-> node]
  ELSE LET child == Append(node, bytes[i])
       IN  IF child \notin DOMAIN t THEN Nil ELSE GetWalk(t, child, bytes, i + 1)

\* PatriciaTrie.GetNetblock: the node, or nil.
GetNetblock(t, netblock) == GetWalk(t, <<>>, netblock.IP, 1)

\* PatriciaTrie.DeleteNetblock: the trie after the call and the error returned.
DeleteNetblock(t, netblock) ==
  LET node == GetNetblock(t, netblock)
  IN  IF node = Nil
      THEN [trie |-> t, err |-> "Netblock not found"]
      ELSE [trie |-> [t EXCEPT ![node.node].isLeaf = FALSE], err |-> "nil"]

\* PatriciaTrie.Lookup: its body is "return nil"; the call of the recursive
\* lookup is commented out, and nothing else calls lookup.
Lookup(t, ip) == Nil

\* --------------------------------------------- package main: Tree / Node

\* One outcome of a call that returns (*net.IPNet, error): the values
\* returned, or the runtime panic of a nil pointer dereference.
Ok(n) == [kind |-> "ok", net |-> n]
Err(msg) == [kind |-> "error", msg |-> msg]
Panic == [kind |-> "panic"]

\* The Node literal of New: Name and Prefix set, parent, l, r and lock nil.
RootNode(root, ip, n) ==
  [kind |-> "node", Name |-> root,
   Prefix |-> [kind |-> "prefix", IP |-> ip, Network |-> n],
   parent |-> Nil, l |-> Nil, r |-> Nil, lock |-> Nil]

\* New: the tree rooted at the root prefix, or an error.
New(root) ==
  LET c == ParseCIDR(root)
  IN  IF c.err # "nil"
      THEN [tree |-> Nil, err |-> "parsing cidr failed"]
      ELSE [tree |-> [kind |-> "tree", Root |-> RootNode(root, c.ip, c.net),
                      elements |-> 1],
            err |-> "nil"]

\* Node.Search.  n.l.Prefix.Network.Contains(ip) dereferences n, n.l,
\* n.l.Prefix and (inside Contains) the network, each of which may be nil;
\* n.r.Search(ip) enters Search with a nil receiver when n.r is nil.
RECURSIVE Search(_, _)
Search(n, ip) ==
  IF ip = <<>> THEN Err("ip to search is nil")
  ELSE IF n = Nil THEN Panic
  ELSE IF n.l = Nil THEN Panic
  ELSE IF n.l.Prefix = Nil THEN Panic
  ELSE IF n.l.Prefix.Network = Nil THEN Panic
  ELSE LET left == IF Contains(n.l.Prefix.Network, ip)
                   THEN Search(n.l, ip)
                   ELSE Ok(Nil)
       IN  IF left.kind = "panic" THEN Panic
           ELSE IF left.kind = "error"
                THEN Err("failed searching a left branch")
           ELSE IF left.net = Nil
                THEN LET right == Search(n.r, ip)
                     IN  IF right.kind = "panic" THEN Panic
                         ELSE IF right.kind = "error"
                              THEN Err("failed searching a right branch")
                              ELSE Ok(right.net)
                ELSE Ok(left.net)

\* Tree.Lpm.
Lpm(t, n) ==
  IF n = <<>> THEN Err("can not LPM a nil prefix") ELSE Search(t.Root, n)

\* Tree.PrefixLpm: t.Lpm(n.IP); a nil n faults.
PrefixLpm(t, n) == IF n = Nil THEN Panic ELSE Lpm(t, n.IP)

\* Tree.Insert: its body is "return true"; the tree is left as it is.
TreeInsert(t, n) == [tree |-> t, ret |-> TRUE]

\* ------------------------------------------ package main: the filter checks

\* The sequences over S of length at most n.
SeqsUpTo(S, n) == UNION { [1 .. k -> S] : k \in 0 .. n }

\* NewRisFilter.
NewRisFilter(aspath, transits, origins, prefix) ==
  [kind |-> "filter", ASPath |-> aspath, InvalidTransitAS |-> transits,
   Origins |-> origins, Prefix |-> prefix]

\* A path element as JSON gives it: a number, a string, or a list of such
\* (an AS set).
Num(v) == [kind |-> "num", val |-> v]
Str(v) == [kind |-> "string", val |-> v]
AsSet(vs) == [kind |-> "list", vals |-> vs]

\* A RisMessageData with the fields the program reads.
RisMessageData(id, path, digested, origin, anns) ==
  [kind |-> "data", ID |-> id, Path |-> path, DigestedPath |-> digested,
   Origin |-> origin, Announcements |-> anns]

\* A RisMessage.
RisMessage(type, data) == [kind |-> "msg", Type |-> type, Data |-> data]

\* A RisAnnouncement.
RisAnnouncement(nexthop, prefixes) ==
  [kind |-> "announcement", NextHop |-> nexthop, Prefixes |-> prefixes]

\* The for loop of MatchASPath from index i (counted from 0, as in Go):
\* "for i := 0; i+cLen < len(r.DigestedPath); i++", the fragment compared
\* being DigestedPath[i:i+cLen].
RECURSIVE MatchLoop(_, _, _)
MatchLoop(path, c, i) ==
  IF i + Len(c) < Len(path)
  THEN IF SubSeq(path, i + 1, i + Len(c)) = c
       THEN TRUE
       ELSE MatchLoop(path, c, i + 1)
  ELSE FALSE

\* RisMessageData.MatchASPath, c a non-nil slice.
MatchASPath(r, c) ==
  IF Len(r.DigestedPath) < Len(c) THEN FALSE ELSE MatchLoop(r.DigestedPath, c, 0)

\* A map read that tells only whether the map holds the key.
MapHas(c, p) == p \in DOMAIN c

\* c[p] of a map[int32]bool: false for a key the map does not hold.
MapGet(c, p) == IF p \in DOMAIN c THEN c[p] ELSE FALSE

\* The range loop of InvalidTransitAS from position i.
RECURSIVE TransitLoop(_, _, _)
TransitLoop(path, c, i) ==
  IF i > Len(path) THEN FALSE
  ELSE IF MapGet(c, path[i]) THEN TRUE
  ELSE TransitLoop(path, c, i + 1)

\* RisMessageData.InvalidTransitAS.
InvalidTransitAS(r, c) == TransitLoop(r.DigestedPath, c, 1)

\* The range loop of RisMessageData.CheckOrigins from position i.
RECURSIVE OriginsLoop(_, _, _)
OriginsLoop(origin, origins, i) ==
  IF i > Len(origins) THEN FALSE
  ELSE IF origin = origins[i] THEN TRUE
  ELSE OriginsLoop(origin, origins, i + 1)

\* RisMessageData.CheckOrigins.
MsgCheckOrigins(r, origins) == OriginsLoop(r.Origin, origins, 1)

\* RisAnnouncement.MatchPrefix: some candidate string is one of the prefixes.
MatchPrefix(r, cs) ==
  \E i \in 1 .. Len(cs) : \E j \in 1 .. Len(r.Prefixes) : cs[i] = r.Prefixes[j]

\* A CheckASPath without the test that the filter's ASPath is set.
CheckASPathUnguarded(f, rm) == MatchASPath(rm, f.ASPath)

\* RisLive.CheckASPath.
CheckASPath(f, rm) ==
  IF Len(f.ASPath) > 0 THEN MatchASPath(rm, f.ASPath) ELSE TRUE

\* RisLive.CheckInvalidTransitAS; len of a map is the number of its keys.
CheckInvalidTransitAS(f, rm) ==
  IF Cardinality(DOMAIN f.InvalidTransitAS) > 0
  THEN InvalidTransitAS(rm, f.InvalidTransitAS)
  ELSE FALSE

\* RisLive.CheckOrigins.
CheckOrigins(f, rm) ==
  IF Len(f.Origins) > 0 THEN MsgCheckOrigins(rm, f.Origins) ELSE FALSE

\* The first loop of CheckPrefix from position i: the networks of the filter
\* prefixes that parse, in order; one that does not parse is logged and skipped.
RECURSIVE FilterPrefixes(_, _)
FilterPrefixes(prefixes, i) ==
  IF i > Len(prefixes) THEN <<>>
  ELSE LET c == ParseCIDR(prefixes[i])
       IN  IF c.err # "nil"
           THEN FilterPrefixes(prefixes, i + 1)
           ELSE <<c.net>> \o FilterPrefixes(prefixes, i + 1)

\* RisLive.CheckPrefix: true at the first announced prefix that parses and
\* whose address (the first result of ParseCIDR; the network is discarded)
\* some filter network contains.
CheckPrefix(f, rm) ==
  IF Len(f.Prefix) > 0
  THEN LET filterPrefixes == FilterPrefixes(f.Prefix, 1)
       IN  \E a \in 1 .. Len(rm.Announcements) :
             \E j \in 1 .. Len(rm.Announcements[a].Prefixes) :
               \E k \in 1 .. Len(filterPrefixes) :
                 LET c == ParseCIDR(rm.Announcements[a].Prefixes[j])
                 IN  c.err = "nil" /\ Contains(filterPrefixes[k], c.ip)
  ELSE FALSE

\* A bool, as returned.
Bool(b) == [kind |-> "bool", val |-> b]

\* ------------------------------------------------- the inputs of the checks

\* The AS numbers of the paths and filters.
ASNs == {701, 3356}

\* The AS paths of the messages, and the fragments asked for.
Paths == SeqsUpTo(ASNs, MaxPathLen)
Frags == SeqsUpTo(ASNs, MaxFragLen)

\* The InvalidTransitAS maps: none, one AS marked, one AS held but not
\* marked, both marked.
TransitMaps ==
  { [a \in {} |-> TRUE], [a \in {701} |-> TRUE], [a \in {701} |-> FALSE],
    [a \in {3356} |-> TRUE], [a \in ASNs |-> TRUE] }

\* The origins of messages and the Origins lists of filters.
MsgOrigins == {"igp", "incomplete"}
OriginLists == { <<>>, <<"igp">>, <<"egp", "igp">> }

\* Prefix strings: what 192.168.0.0/16, 192.168.0.0/24 and 192.169.0.0/24
\* scale to, an IPv6 prefix, and a string that is no CIDR ("192.b.0.0/16").
PfxWide == [addr |-> Pad(<<1>>, IPv4len), ones |-> ByteBits]
PfxNarrow == [addr |-> Pad(<<1>>, IPv4len), ones |-> 2 * ByteBits]
PfxOther == [addr |-> Pad(<<0, 1>>, IPv4len), ones |-> 2 * ByteBits]
PfxV6 == [addr |-> Pad(<<1>>, IPv6len), ones |-> ByteBits]
PfxBad == [addr |-> <<>>, ones |-> 2 * ByteBits]

\* The Prefix lists of filters.
PrefixLists ==
  { <<>>, <<PfxWide>>, <<PfxNarrow>>, <<PfxBad>>, <<PfxBad, PfxWide>>,
    <<PfxV6, PfxOther>> }

\* The Announcements of messages.
AnnouncementLists ==
  { <<>>,
    <<RisAnnouncement("nh", <<PfxWide>>)>>,
    <<RisAnnouncement("nh", <<PfxNarrow>>)>>,
    <<RisAnnouncement("nh", <<PfxBad>>)>>,
    <<RisAnnouncement("nh", <<>>), RisAnnouncement("nh", <<PfxBad, PfxOther>>)>>,
    <<RisAnnouncement("nh", <<PfxV6>>)>> }

\* The filters: one component set at a time, and two with several set.
Filters ==
  { NewRisFilter(c, [a \in {} |-> TRUE], <<>>, <<>>) : c \in Frags }
  \cup { NewRisFilter(<<>>, m, <<>>, <<>>) : m \in TransitMaps }
  \cup { NewRisFilter(<<>>, [a \in {} |-> TRUE], o, <<>>) : o \in OriginLists }
  \cup { NewRisFilter(<<>>, [a \in {} |-> TRUE], <<>>, p) : p \in PrefixLists }
  \cup { NewRisFilter(<<701>>, [a \in {701} |-> TRUE], <<"igp">>, <<PfxWide>>),
         NewRisFilter(<<>>, [a \in {} |-> TRUE], <<"igp">>, <<PfxNarrow>>) }

\* The messages handed to the checks.
Messages ==
  { RisMessageData("m", [i \in 1 .. Len(p) |-> Num(p[i])], p, o, a) :
      p \in Paths, o \in MsgOrigins, a \in AnnouncementLists }

\* ------------------------------------------------------ the state machine

\* A value of type error, as returned: nil or the message.
ErrorValue(e) == IF e = "nil" THEN Nil ELSE [kind |-> "error", msg |-> e]

\* The goroutines that call into the tries.
Procs == {"g1", "g2"}

\* No trie call in progress.
IdleConc == calls = [g \in Procs |-> Nil]

\* A RisLive whose filter has nothing set, and no message at hand.
IdleFilter ==
  /\ filter = NewRisFilter(<<>>, [a \in {} |-> TRUE], <<>>, <<>>)
  /\ rmd = Nil

\* Get not called.
NoGet == [pc |-> "idle", rm |-> Nil, ret |-> Nil]

\* No Listen running: no input, no channel made, nothing received.
IdleRis ==
  /\ input = <<>>
  /\ lis = [pc |-> "idle", pos |-> 1, rm |-> Nil]
  /\ chan = Nil
  /\ records = 0
  /\ recv = [got |-> <<>>, eof |-> FALSE]
  /\ get = NoGet

Init ==
  /\ trie = NewPatriciaTrie
  /\ \E root \in RootCidrs :
       /\ tree = New(root).tree
       /\ last = [op |-> "New", arg |-> root, ret |-> ErrorValue(New(root).err)]
  /\ IdleConc /\ IdleFilter /\ IdleRis

\* t, err := New(root): on an error the caller keeps the tree it has.
DoNew(root) ==
  /\ tree' = IF New(root).err = "nil" THEN New(root).tree ELSE tree
  /\ last' = [op |-> "New", arg |-> root, ret |-> ErrorValue(New(root).err)]
  /\ UNCHANGED trie
  /\ UNCHANGED <<concVars, filterVars, risVars>>

\* t.Insert(ip) on the PatriciaTrie.
DoInsert(ip) ==
  /\ trie' = InsertCall(trie, ip).trie
  /\ last' = [op |-> "Insert", arg |-> ip, ret |-> InsertCall(trie, ip).ret]
  /\ UNCHANGED tree
  /\ UNCHANGED <<concVars, filterVars, risVars>>

\* A GetNetblock that makes the nodes it does not find, as Insert's loop does.
DoGetNetblockCreating(netblock) ==
  /\ trie' = [Insert(trie, netblock) EXCEPT
                ![netblock.IP].isLeaf =
                   IF netblock.IP \in DOMAIN trie
                   THEN trie[netblock.IP].isLeaf ELSE FALSE]
  /\ last' = [op |-> "GetNetblock", arg |-> netblock,
              ret |-> GetNetblock(trie, netblock)]
  /\ UNCHANGED tree
  /\ UNCHANGED <<concVars, filterVars, risVars>>

\* t.GetNetblock(netblock).
DoGetNetblock(netblock) ==
  /\ last' = [op |-> "GetNetblock", arg |-> netblock,
              ret |-> GetNetblock(trie, netblock)]
  /\ UNCHANGED <<trie, tree>>
  /\ UNCHANGED <<concVars, filterVars, risVars>>

\* t.DeleteNetblock(netblock).
DoDeleteNetblock(netblock) ==
  /\ trie' = DeleteNetblock(trie, netblock).trie
  /\ last' = [op |-> "DeleteNetblock", arg |-> netblock,
              ret |-> ErrorValue(DeleteNetblock(trie, netblock).err)]
  /\ UNCHANGED tree
  /\ UNCHANGED <<concVars, filterVars, risVars>>

\* trie.Lookup(ip).
DoLookup(ip) ==
  /\ last' = [op |-> "Lookup", arg |-> ip, ret |-> Lookup(trie, ip)]
  /\ UNCHANGED <<trie, tree>>
  /\ UNCHANGED <<concVars, filterVars, risVars>>

\* t.Insert(n) on the Tree.
DoTreeInsert(n) ==
  /\ tree' = TreeInsert(tree, n).tree
  /\ last' = [op |-> "Tree.Insert", arg |-> n,
              ret |-> [kind |-> "bool", val |-> TreeInsert(tree, n).ret]]
  /\ UNCHANGED trie
  /\ UNCHANGED <<concVars, filterVars, risVars>>

\* t.Lpm(n).
DoLpm(n) ==
  /\ last' = [op |-> "Lpm", arg |-> n, ret |-> Lpm(tree, n)]
  /\ UNCHANGED <<trie, tree>>
  /\ UNCHANGED <<concVars, filterVars, risVars>>

\* t.PrefixLpm(n).
DoPrefixLpm(n) ==
  /\ last' = [op |-> "PrefixLpm", arg |-> n, ret |-> PrefixLpm(tree, n)]
  /\ UNCHANGED <<trie, tree>>
  /\ UNCHANGED <<concVars, filterVars, risVars>>

Next ==
  \/ \E root \in RootCidrs \cup BadCidrs : DoNew(root)
  \/ \E ip \in Netblocks \cup MismatchedNetblocks : DoInsert(ip)
  \/ \E netblock \in Netblocks \cup MismatchedNetblocks : DoGetNetblock(netblock)
  \/ \E netblock \in Netblocks : DoDeleteNetblock(netblock)
  \/ \E ip \in Netblocks : DoLookup(ip)
  \/ \E n \in Netblocks : DoTreeInsert(n)
  \/ \E n \in Addresses : DoLpm(n)
  \/ \E n \in Netblocks : DoPrefixLpm(n)

Spec == Init /\ [][Next]_vars

\* --------------------------- the trie calls of goroutines, step by step

\* Nothing in the code takes a lock: Node.lock of src/trie.go is a nil
\* *sync.Mutex that no function uses, and package trie2 has none.  The calls
\* of different goroutines therefore interleave statement by statement, and
\* an unsynchronised read of a pointer another goroutine writes yields the
\* pointer as it was before or as it is after the write.

\* The netblocks and addresses the goroutines call with: an IPv4 and an IPv6
\* netblock whose addresses start with the same bytes.
ConcNetblocks ==
  { ParseCIDR(str).net :
      str \in { [addr |-> Pad(<<1>>, IPv4len), ones |-> ByteBits],
                [addr |-> Pad(<<1>>, IPv6len), ones |-> ByteBits] } }

\* Whether path q is path x or an ancestor of it.
IsPrefix(q, x) == Len(x) >= Len(q) /\ SubSeq(x, 1, Len(q)) = q

\* The nodes of t at and below path q.
SubTrie(t, q) == [x \in { y \in DOMAIN t : IsPrefix(q, y) } |-> t[x]]

\* "node.children[b] = &Node{}" at path q: a fresh node there, whatever hung
\* there before being no longer reachable from the root.
Overwrite(t, q) ==
  [x \in { y \in DOMAIN t : ~IsPrefix(q, y) } \cup {q} |->
     IF x = q THEN ZeroNode ELSE t[x]]

\* A call in progress: the operation, its argument, the statement it is at,
\* its local variable node (as a path) and its place i in the range loop over
\* the bytes; whether it has created a node; and, once another goroutine has
\* overwritten a pointer on the way to node, the nodes this call still holds
\* that the root no longer reaches.
NewCall(op, arg) ==
  [kind |-> "call", op |-> op, arg |-> arg, pc |-> "check",
   node |-> <<>>, i |-> 1, created |-> FALSE, priv |-> Nil]

\* Whether goroutine g is inside a call.
InFlight(g) == calls[g] # Nil /\ calls[g].kind = "call"

\* Whether a goroutine has died of a panic, which ends the process.
Crashed == \E g \in Procs : calls[g] = Panic

\* The nodes call c reads and writes.
Mem(c) == IF c.priv = Nil THEN trie ELSE c.priv.nodes

\* node.children[b] for the byte b the loop of call c is at.
Child(c) == Append(c.node, c.arg.IP[c.i])

\* A loop that does not move on to the next byte.
SameIndex(i) == i

\* The range loop's step to the next byte.
NextIndex(i) == i + 1

\* A call of g returns ret.
Return(g, ret) ==
  /\ calls' = [calls EXCEPT ![g] = Nil]
  /\ last' = [op |-> calls[g].op, arg |-> calls[g].arg, ret |-> ret]

\* g enters Insert, GetNetblock or DeleteNetblock: "node := t.root".
Begin(g, op, arg) ==
  /\ ~Crashed
  /\ calls[g] = Nil
  /\ calls' = [calls EXCEPT ![g] = NewCall(op, arg)]
  /\ UNCHANGED <<trie, tree, last, filterVars, risVars>>

\* "if node.children[b] == nil": Insert goes on to create the child,
\* GetNetblock returns nil and DeleteNetblock, finding nil, its error.
StepCheck(g) ==
  /\ ~Crashed
  /\ InFlight(g)
  /\ calls[g].pc = "check"
  /\ IF Child(calls[g]) \in DOMAIN Mem(calls[g])
     THEN /\ calls' = [calls EXCEPT ![g].pc = "descend"]
          /\ UNCHANGED last
     ELSE IF calls[g].op = "Insert"
     THEN /\ calls' = [calls EXCEPT ![g].pc = "create"]
          /\ UNCHANGED last
     ELSE IF calls[g].op = "GetNetblock"
     THEN Return(g, Nil)
     ELSE Return(g, ErrorValue("Netblock not found"))
  /\ UNCHANGED <<trie, tree, filterVars, risVars>>

\* "node.children[b] = &Node{}" of Insert.  Written to the shared trie, it
\* cuts off a goroutine that had already gone through the pointer it replaces.
StepCreate(g) ==
  /\ ~Crashed
  /\ InFlight(g)
  /\ calls[g].pc = "create"
  /\ LET c == calls[g]
         q == Child(c)
     IN  IF c.priv = Nil
         THEN /\ trie' = Overwrite(trie, q)
              /\ calls' =
                   [h \in Procs |->
                      IF h = g THEN [c EXCEPT !.pc = "descend", !.created = TRUE]
                      ELSE IF /\ InFlight(h)
                              /\ calls[h].priv = Nil
                              /\ IsPrefix(q, calls[h].node)
                           THEN [calls[h] EXCEPT
                                   !.priv = [kind |-> "trie",
                                             nodes |-> SubTrie(trie, q)]]
                           ELSE calls[h]]
         ELSE /\ calls' = [calls EXCEPT ![g].pc = "descend",
                                        ![g].created = TRUE,
                                        ![g].priv.nodes = Overwrite(c.priv.nodes, q)]
              /\ UNCHANGED trie
  /\ UNCHANGED <<tree, last, filterVars, risVars>>

\* "node = node.children[b]" and the loop's step to the next byte; past the
\* last byte Insert goes on to set isLeaf, DeleteNetblock to clear it, and
\* GetNetblock returns node.
StepDescend(g) ==
  /\ ~Crashed
  /\ InFlight(g)
  /\ calls[g].pc = "descend"
  /\ LET c == calls[g]
         more == NextIndex(c.i) <= Len(c.arg.IP)
         d == [c EXCEPT !.node = Child(c), !.i = NextIndex(c.i)]
     IN  IF more
         THEN /\ calls' = [calls EXCEPT ![g] = [d EXCEPT !.pc = "check"]]
              /\ UNCHANGED last
         ELSE IF c.op = "Insert"
         THEN /\ calls' = [calls EXCEPT ![g] = [d EXCEPT !.pc = "leaf"]]
              /\ UNCHANGED last
         ELSE IF c.op = "DeleteNetblock"
         THEN /\ calls' = [calls EXCEPT ![g] = [d EXCEPT !.pc = "unleaf"]]
              /\ UNCHANGED last
         ELSE Return(g, [kind |-> "node", node |-> Child(c)])
  /\ UNCHANGED <<trie, tree, filterVars, risVars>>

\* "node.isLeaf = true" (Insert) and "node.isLeaf = false" (DeleteNetblock),
\* after which the call returns.
StepSetLeaf(g) ==
  /\ ~Crashed
  /\ InFlight(g)
  /\ calls[g].pc \in {"leaf", "unleaf"}
  /\ LET c == calls[g]
     IN  /\ trie' = IF c.priv = Nil
                    THEN [trie EXCEPT ![c.node].isLeaf = (c.pc = "leaf")]
                    ELSE trie
         /\ Return(g, IF c.op = "Insert" THEN [kind |-> "void"] ELSE Nil)
  /\ UNCHANGED <<tree, filterVars, risVars>>

\* The next statement of g's call.
StepCall(g) ==
  \/ StepCheck(g)
  \/ StepCreate(g)
  \/ StepDescend(g)
  \/ StepSetLeaf(g)

\* trie.Lookup(ip) by g: "return nil", which touches no node.
CallLookup(g, ip) ==
  /\ ~Crashed
  /\ calls[g] = Nil
  /\ last' = [op |-> "Lookup", arg |-> ip, ret |-> Lookup(trie, ip)]
  /\ UNCHANGED <<trie, tree, calls, filterVars, risVars>>

\* The levels Node.Search descends below n: one for each call of Search on a
\* child that the call on n makes, nested calls included.
RECURSIVE SearchDepth(_, _)
SearchDepth(n, ip) ==
  IF ip = <<>> \/ n = Nil THEN 0
  ELSE IF n.l = Nil \/ n.l.Prefix = Nil \/ n.l.Prefix.Network = Nil THEN 0
  ELSE LET dl == IF Contains(n.l.Prefix.Network, ip)
                 THEN 1 + SearchDepth(n.l, ip) ELSE 0
           dr == IF Contains(n.l.Prefix.Network, ip) /\ Search(n.l, ip) # Ok(Nil)
                 THEN 0 ELSE 1 + SearchDepth(n.r, ip)
       IN  IF dl >= dr THEN dl ELSE dr

\* t.Lpm(n) by g.  The tree is written by nobody after New, so the whole
\* recursive search reads one and the same tree; a nil dereference in it
\* panics, and the panic of a goroutine ends the process.
CallLpm(g, n) ==
  /\ ~Crashed
  /\ calls[g] = Nil
  /\ last' = [op |-> "Lpm", arg |-> n, ret |-> Lpm(tree, n)]
  /\ calls' = IF Lpm(tree, n) = Panic THEN [calls EXCEPT ![g] = Panic] ELSE calls
  /\ UNCHANGED <<trie, tree, filterVars, risVars>>

\* A new PatriciaTrie and a Tree rooted at the IPv4 prefix, and no call yet.
InitConc ==
  /\ trie = NewPatriciaTrie
  /\ tree = New([addr |-> Pad(<<1>>, IPv4len), ones |-> ByteBits]).tree
  /\ last = [op |-> "New", arg |-> [addr |-> Pad(<<1>>, IPv4len), ones |-> ByteBits],
             ret |-> Nil]
  /\ IdleConc /\ IdleFilter /\ IdleRis

NextConc ==
  \E g \in Procs :
    \/ \E ip \in ConcNetblocks : Begin(g, "Insert", ip)
    \/ \E netblock \in ConcNetblocks : Begin(g, "GetNetblock", netblock)
    \/ \E netblock \in ConcNetblocks : Begin(g, "DeleteNetblock", netblock)
    \/ StepCall(g)

SpecConc == InitConc /\ [][NextConc]_vars

\* One goroutine making the calls one after the other, each statement by
\* statement.
NextWalk ==
  \/ \E ip \in ConcNetblocks \cup MismatchedNetblocks : Begin("g1", "Insert", ip)
  \/ \E netblock \in ConcNetblocks : Begin("g1", "GetNetblock", netblock)
  \/ \E netblock \in ConcNetblocks : Begin("g1", "DeleteNetblock", netblock)
  \/ \E ip \in ConcNetblocks : CallLookup("g1", ip)
  \/ \E n \in Addresses : CallLpm("g1", n)
  \/ StepCall("g1")

\* A goroutine that is inside a call and can run does run its next
\* statement: nothing in these functions waits for anything.
FairWalk == InitConc /\ [][NextWalk]_vars /\ WF_vars(StepCall("g1"))

\* ----------------------------------------------------- Listen and Chan

\* The loop of digestPath over m.Path from position i, acc being
\* m.DigestedPath so far: a number is appended; the elements of a list are
\* appended one by one, each asserted to be a number ("e.(float64)", which
\* panics on anything else); any other element ends the loop with an error
\* and leaves DigestedPath as far as it got.  The AS numbers of the inputs
\* fit int32.
RECURSIVE DigestLoop(_, _, _)
DigestLoop(path, i, acc) ==
  IF i > Len(path) THEN [kind |-> "ok", digested |-> acc, err |-> "nil"]
  ELSE IF path[i].kind = "num"
       THEN DigestLoop(path, i + 1, Append(acc, path[i].val))
  ELSE IF path[i].kind = "list"
       THEN IF \E j \in 1 .. Len(path[i].vals) : path[i].vals[j].kind # "num"
            THEN Panic
            ELSE DigestLoop(path, i + 1,
                            acc \o [j \in 1 .. Len(path[i].vals) |->
                                      path[i].vals[j].val])
  ELSE [kind |-> "ok", digested |-> acc,
        err |-> "failed to decode path element"]

\* digestPath(m): m with its DigestedPath set, and the error; a nil m faults
\* at "m.DigestedPath = []int32{}".
digestPath(m) ==
  IF m = Nil THEN Panic
  ELSE IF DigestLoop(m.Path, 1, <<>>).kind = "panic" THEN Panic
  ELSE [kind |-> "ok",
        data |-> [m EXCEPT !.DigestedPath = DigestLoop(m.Path, 1, <<>>).digested],
        err |-> DigestLoop(m.Path, 1, <<>>).err]

\* make(chan RisMessage, depth).
MakeChan(depth) == [kind |-> "chan", buf |-> <<>>, cap |-> depth, closed |-> FALSE]

\* A queue that puts the message sent in front of those waiting.
ChanSendFront(buf, m) == <<m>> \o buf

\* The queue of a channel after a send of m: a channel is first in, first out.
ChanSend(buf, m) == Append(buf, m)

\* The JSON values of the input, each by what dec.Decode makes of it: "ok"
\* decodes into msg; "type" is well-formed JSON that does not fit RisMessage
\* (Decode returns an UnmarshalTypeError and goes on with the next value);
\* "syntax" is no JSON (Decode returns a SyntaxError, and the same error on
\* every later call).
Item(kind, m) == [kind |-> kind, msg |-> m]

\* The JSON values of the inputs: two messages, one with an AS set in its
\* path; a message whose path holds a string, and one whose AS set does; a
\* message with no "data"; a value of the wrong type; and text that is no
\* JSON.
Items ==
  { Item("ok", RisMessage("ris_message",
           RisMessageData("a", <<Num(701), Num(3356)>>, <<>>, "igp",
                          <<RisAnnouncement("nh", <<PfxNarrow>>)>>))),
    Item("ok", RisMessage("ris_message",
           RisMessageData("b", <<Num(701), AsSet(<<Num(3356), Num(701)>>)>>, <<>>,
                          "incomplete", <<>>))),
    Item("ok", RisMessage("ris_message",
           RisMessageData("c", <<Num(701), Str("x")>>, <<>>, "igp",
                          <<>>))),
    Item("ok", RisMessage("ris_message",
           RisMessageData("d", <<AsSet(<<Str("x")>>)>>, <<>>, "igp", <<>>))),
    Item("ok", RisMessage("ris_error", Nil)),
    Item("type", Nil),
    Item("syntax", Nil) }

\* The files Listen is given.
Inputs == SeqsUpTo(Items, MaxInput)

\* NewRisLive with a file of JSON values and a buffer depth; Listen not yet
\* started.
InitRis ==
  /\ trie = NewPatriciaTrie
  /\ tree = Nil
  /\ last = [op |-> "NewRisLive", arg |-> Nil, ret |-> Nil]
  /\ IdleConc /\ IdleFilter
  /\ input \in Inputs
  /\ lis = [pc |-> "idle", pos |-> 1, rm |-> Nil]
  /\ \E depth \in 0 .. MaxBuffer : chan = MakeChan(depth)
  /\ records = 0
  /\ recv = [got |-> <<>>, eof |-> FALSE]
  /\ get = NoGet

\* Whether the process has died of a panic in Listen.
ListenPanicked == lis.pc = "panic"

\* Whether the process has died of a panic in Get.
GetPanicked == get.pc = "panic"

\* An end of input met one value early.
AtEOFEarly(pos, in) == pos >= Len(in)

\* "err == io.EOF": Decode is called with every value of the input read.
AtEOF(pos, in) == pos > Len(in)

\* A channel that takes any number of messages.
NeverFull(c) == FALSE

\* Whether the queue of channel c holds as many messages as it was made for.
ChanFull(c) == Len(c.buf) >= c.cap

\* "go r.Listen()" up to the for loop: the file is read, the decoder and the
\* log file are made.
ListenStart ==
  /\ ~GetPanicked
  /\ lis.pc = "idle"
  /\ lis' = [lis EXCEPT !.pc = "decode"]
  /\ UNCHANGED <<trie, tree, last, concVars, filterVars, input, chan, records, recv, get>>

\* One turn of the for loop up to "r.Records++": dec.Decode(&rm), the switch
\* on its error, and digestPath(rm.Data), whose error is only printed.  At the
\* end of the input Listen closes the channel and returns.
ListenDecode ==
  /\ ~GetPanicked
  /\ lis.pc = "decode"
  /\ IF AtEOF(lis.pos, input)
     THEN /\ chan' = [chan EXCEPT !.closed = TRUE]
          /\ lis' = [lis EXCEPT !.pc = "done"]
     ELSE /\ UNCHANGED chan
          /\ LET item == input[lis.pos]
             IN  IF item.kind = "syntax"
                 THEN lis' = [lis EXCEPT !.pc = "log"]
                 ELSE IF item.kind = "type"
                 THEN lis' = [lis EXCEPT !.pc = "log", !.pos = lis.pos + 1]
                 ELSE IF digestPath(item.msg.Data).kind = "panic"
                 THEN lis' = [lis EXCEPT !.pc = "panic"]
                 ELSE lis' = [pc |-> "count", pos |-> lis.pos + 1,
                              rm |-> [item.msg EXCEPT
                                        !.Data = digestPath(item.msg.Data).data]]
  /\ UNCHANGED <<trie, tree, last, concVars, filterVars, input, records, recv, get>>

\* The case of a Decode error other than io.EOF: "bad json content" is
\* written to the log file and the loop continues with the next Decode.  After
\* a syntax error that Decode returns the same error again, the decoder
\* having kept it, and the loop comes back here.
ListenLog ==
  /\ ~GetPanicked
  /\ lis.pc = "log"
  /\ lis' = [lis EXCEPT !.pc = "decode"]
  /\ UNCHANGED <<trie, tree, last, concVars, filterVars, input, chan, records,
                 recv, get>>

\* "r.Records++".
ListenCount ==
  /\ ~GetPanicked
  /\ lis.pc = "count"
  /\ records' = records + 1
  /\ lis' = [lis EXCEPT !.pc = "send"]
  /\ UNCHANGED <<trie, tree, last, concVars, filterVars, input, chan, recv, get>>

\* "r.Chan <- rm" on a buffered channel: waits while the queue is full.
ListenSend ==
  /\ ~GetPanicked
  /\ lis.pc = "send"
  /\ chan.cap > 0
  /\ ~ChanFull(chan)
  /\ chan' = [chan EXCEPT !.buf = ChanSend(chan.buf, lis.rm)]
  /\ lis' = [lis EXCEPT !.pc = "decode", !.rm = Nil]
  /\ UNCHANGED <<trie, tree, last, concVars, filterVars, input, records, recv, get>>

\* "<-r.Chan" of the receiver: the head of the queue.
Receive ==
  /\ ~ListenPanicked
  /\ Len(chan.buf) > 0
  /\ recv' = [recv EXCEPT !.got = Append(recv.got, Head(chan.buf))]
  /\ chan' = [chan EXCEPT !.buf = Tail(chan.buf)]
  /\ UNCHANGED <<trie, tree, last, concVars, filterVars, input, lis, records, get>>

\* "r.Chan <- rm" on a channel of depth 0 meeting "<-r.Chan": the message
\* goes from Listen to the receiver in one step.
Handoff ==
  /\ lis.pc = "send"
  /\ chan.cap = 0
  /\ recv' = [recv EXCEPT !.got = Append(recv.got, lis.rm)]
  /\ lis' = [lis EXCEPT !.pc = "decode", !.rm = Nil]
  /\ UNCHANGED <<trie, tree, last, concVars, filterVars, input, chan, records, get>>

\* "<-r.Chan" on a closed channel with nothing queued: the end of the channel.
ReceiveEnd ==
  /\ chan.closed
  /\ Len(chan.buf) = 0
  /\ ~recv.eof
  /\ recv' = [recv EXCEPT !.eof = TRUE]
  /\ UNCHANGED <<trie, tree, last, concVars, filterVars, input, lis, chan, records, get>>

NextRis ==
  \/ ListenStart
  \/ ListenDecode
  \/ ListenLog
  \/ ListenCount
  \/ ListenSend
  \/ Handoff
  \/ Receive
  \/ ReceiveEnd

SpecRis == InitRis /\ [][NextRis]_vars

\* ------------------------------------------------------ Get against Listen

\* Whether the Printf of Get's announcement loop is reached: the first
\* announcement of the message carries a prefix.
Prints(m) ==
  /\ Len(m.Announcements) > 0
  /\ Len(m.Announcements[1].Prefixes) > 0

\* Whether that Printf faults: "rmd.DigestedPath[len(rmd.DigestedPath)-1]"
\* indexes an empty slice at -1.
PrintFaults(m) == Prints(m) /\ Len(m.DigestedPath) = 0

\* A test that asks for the AS path alone.
PathCheckOnly(f, m) == CheckASPath(f, m)

\* The test of Get's if: the four checks of r.Filter, all of them.
AllChecks(f, m) ==
  /\ CheckASPath(f, m)
  /\ CheckInvalidTransitAS(f, m)
  /\ CheckOrigins(f, m)
  /\ CheckPrefix(f, m)

\* The string Get returns for a match: "Message(%d): ... Prefix1: %v" with
\* r.Records as read at that moment and the local prefix, which is never
\* assigned; the messages of the inputs carry no peer.
Report(n) == [kind |-> "report", Records |-> n, Prefix1 |-> ""]

\* The string Get returns at the end of the channel.
Done == [kind |-> "Done"]

\* The JSON values Get is run on: a message, one with an AS set and no
\* announcement, one whose path holds a string, one with announcements and
\* an empty path, and text that is no JSON.
GetItems ==
  { Item("ok", RisMessage("ris_message",
           RisMessageData("a", <<Num(701), Num(3356)>>, <<>>, "igp",
                          <<RisAnnouncement("nh", <<PfxNarrow>>)>>))),
    Item("ok", RisMessage("ris_message",
           RisMessageData("b", <<Num(701), AsSet(<<Num(3356), Num(701)>>)>>, <<>>,
                          "incomplete", <<>>))),
    Item("ok", RisMessage("ris_message",
           RisMessageData("c", <<Num(701), Str("x")>>, <<>>, "igp",
                          <<RisAnnouncement("nh", <<PfxNarrow>>)>>))),
    Item("ok", RisMessage("ris_message",
           RisMessageData("e", <<>>, <<>>, "igp",
                          <<RisAnnouncement("nh", <<PfxOther>>)>>))),
    Item("syntax", Nil) }

GetInputs == SeqsUpTo(GetItems, MaxInput)

\* The filters Get is run with: that of main (Prefix and Origins set), one
\* with every component set, and one with nothing set.
GetFilters ==
  { NewRisFilter(<<>>, [a \in {} |-> TRUE], <<"igp">>, <<PfxWide>>),
    NewRisFilter(<<701>>, [a \in {701} |-> TRUE], <<"igp">>, <<PfxWide>>),
    NewRisFilter(<<>>, [a \in {} |-> TRUE], <<>>, <<>>) }

\* main: NewRisLive, "go r.Listen()" and the call of r.Get(r.Filter), which
\* is at its range statement.
InitGet ==
  /\ trie = NewPatriciaTrie
  /\ tree = Nil
  /\ last = [op |-> "NewRisLive", arg |-> Nil, ret |-> Nil]
  /\ IdleConc
  /\ filter \in GetFilters
  /\ rmd = Nil
  /\ input \in GetInputs
  /\ lis = [pc |-> "idle", pos |-> 1, rm |-> Nil]
  /\ \E depth \in 0 .. MaxBuffer : chan = MakeChan(depth)
  /\ records = 0
  /\ recv = [got |-> <<>>, eof |-> FALSE]
  /\ get = [pc |-> "range", rm |-> Nil, ret |-> Nil]

\* "for rm := range r.Chan" taking the head of the queue.
GetReceive ==
  /\ ~ListenPanicked
  /\ get.pc = "range"
  /\ Len(chan.buf) > 0
  /\ get' = [get EXCEPT !.pc = "print", !.rm = Head(chan.buf)]
  /\ recv' = [recv EXCEPT !.got = Append(recv.got, Head(chan.buf))]
  /\ chan' = [chan EXCEPT !.buf = Tail(chan.buf)]
  /\ UNCHANGED <<trie, tree, last, concVars, filterVars, input, lis, records>>

\* The range statement meeting "r.Chan <- rm" on a channel of depth 0.
GetHandoff ==
  /\ get.pc = "range"
  /\ lis.pc = "send"
  /\ chan.cap = 0
  /\ get' = [get EXCEPT !.pc = "print", !.rm = lis.rm]
  /\ recv' = [recv EXCEPT !.got = Append(recv.got, lis.rm)]
  /\ lis' = [lis EXCEPT !.pc = "decode", !.rm = Nil]
  /\ UNCHANGED <<trie, tree, last, concVars, filterVars, input, chan, records>>

\* The range loop ends on the closed, drained channel: return "Done".
GetEnd ==
  /\ ~ListenPanicked
  /\ get.pc = "range"
  /\ chan.closed
  /\ Len(chan.buf) = 0
  /\ get' = [get EXCEPT !.pc = "returned", !.ret = Done]
  /\ recv' = [recv EXCEPT !.eof = TRUE]
  /\ UNCHANGED <<trie, tree, last, concVars, filterVars, input, lis, chan, records>>

\* The body of the loop down to the if: the prefixes are collected and
\* printed with the last element of DigestedPath.
GetPrint ==
  /\ ~ListenPanicked
  /\ get.pc = "print"
  /\ get' = [get EXCEPT !.pc = IF PrintFaults(get.rm.Data)
                               THEN "panic" ELSE "check"]
  /\ UNCHANGED <<trie, tree, last, concVars, filterVars, input, lis, chan,
                 records, recv>>

\* The if of the loop: on a failed check the loop goes to its next message.
GetCheck ==
  /\ ~ListenPanicked
  /\ get.pc = "check"
  /\ get' = [get EXCEPT !.pc = IF AllChecks(filter, get.rm.Data)
                               THEN "report" ELSE "range"]
  /\ UNCHANGED <<trie, tree, last, concVars, filterVars, input, lis, chan,
                 records, recv>>

\* "return fmt.Sprintf(..., r.Records, ...)": Records is read as it stands.
GetReport ==
  /\ ~ListenPanicked
  /\ get.pc = "report"
  /\ get' = [get EXCEPT !.pc = "returned", !.ret = Report(records)]
  /\ UNCHANGED <<trie, tree, last, concVars, filterVars, input, lis, chan,
                 records, recv>>

\* The steps of the goroutine in Listen, and of the one in Get.
ListenStep ==
  ListenStart \/ ListenDecode \/ ListenLog \/ ListenCount \/ ListenSend
GetStep ==
  GetReceive \/ GetHandoff \/ GetEnd \/ GetPrint \/ GetCheck \/ GetReport

NextGet ==
  \/ ListenStart
  \/ ListenDecode
  \/ ListenLog
  \/ ListenCount
  \/ ListenSend
  \/ GetReceive
  \/ GetHandoff
  \/ GetEnd
  \/ GetPrint
  \/ GetCheck
  \/ GetReport

SpecGet == InitGet /\ [][NextGet]_vars

\* Both goroutines are scheduled: one that can take a step does.
FairGet ==
  InitGet /\ [][NextGet]_vars /\ WF_vars(ListenStep) /\ WF_vars(GetStep)

\* ------------------------------------------- the filter checks, applied

\* A RisLive with one of the filters and a decoded message at hand; no trie
\* is in use.
InitFilter ==
  /\ trie = NewPatriciaTrie
  /\ tree = Nil
  /\ filter \in Filters
  /\ rmd \in Messages
  /\ last = [op |-> "NewRisFilter", arg |-> Nil, ret |-> Nil]
  /\ IdleConc /\ IdleRis

\* rmd.MatchASPath(c).
DoMatchASPath(c) ==
  /\ last' = [op |-> "MatchASPath", arg |-> c, ret |-> Bool(MatchASPath(rmd, c))]
  /\ UNCHANGED <<trie, tree, concVars, filterVars, risVars>>

\* rmd.Announcements[a].MatchPrefix(cs).
DoMatchPrefix(a, cs) ==
  /\ last' = [op |-> "MatchPrefix", arg |-> <<a, cs>>,
              ret |-> Bool(MatchPrefix(rmd.Announcements[a], cs))]
  /\ UNCHANGED <<trie, tree, concVars, filterVars, risVars>>

\* r.CheckASPath(rmd).
DoCheckASPath ==
  /\ last' = [op |-> "CheckASPath", arg |-> Nil,
              ret |-> Bool(CheckASPath(filter, rmd))]
  /\ UNCHANGED <<trie, tree, concVars, filterVars, risVars>>

\* r.CheckInvalidTransitAS(rmd).
DoCheckInvalidTransitAS ==
  /\ last' = [op |-> "CheckInvalidTransitAS", arg |-> Nil,
              ret |-> Bool(CheckInvalidTransitAS(filter, rmd))]
  /\ UNCHANGED <<trie, tree, concVars, filterVars, risVars>>

\* r.CheckOrigins(rmd).
DoCheckOrigins ==
  /\ last' = [op |-> "CheckOrigins", arg |-> Nil,
              ret |-> Bool(CheckOrigins(filter, rmd))]
  /\ UNCHANGED <<trie, tree, concVars, filterVars, risVars>>

\* r.CheckPrefix(rmd).
DoCheckPrefix ==
  /\ last' = [op |-> "CheckPrefix", arg |-> Nil,
              ret |-> Bool(CheckPrefix(filter, rmd))]
  /\ UNCHANGED <<trie, tree, concVars, filterVars, risVars>>

NextFilter ==
  \/ \E c \in Frags : DoMatchASPath(c)
  \/ \E a \in 1 .. Len(rmd.Announcements) : \E cs \in PrefixLists :
       DoMatchPrefix(a, cs)
  \/ DoCheckASPath
  \/ DoCheckInvalidTransitAS
  \/ DoCheckOrigins
  \/ DoCheckPrefix

SpecFilter == InitFilter /\ [][NextFilter]_vars

\* The shape of the state.
TypeOK ==
  /\ <<>> \in DOMAIN trie
  /\ \A q \in DOMAIN trie :
       /\ trie[q].isLeaf \in BOOLEAN
       /\ trie[q].ip \in {Nil} \cup Netblocks
       /\ Len(q) <= IPv6len
       /\ \A i \in 1 .. Len(q) : q[i] \in Byte
       /\ q # <<>> => SubSeq(q, 1, Len(q) - 1) \in DOMAIN trie
  /\ tree.kind = "tree"
  /\ tree.elements \in Nat
  /\ last.op \in {"New", "Insert", "GetNetblock", "DeleteNetblock", "Lookup",
                  "Tree.Insert", "Lpm", "PrefixLpm"}

\* ------------------------------------------------- what the claims speak of

\* exactLookup is GetNetblock and delete is DeleteNetblock, which tells a
\* netblock it found from one it did not by "node == nil"; longestMatch is
\* Tree.Lpm (and PatriciaTrie.Lookup); size() is Tree.elements.  The only
\* payload a PatriciaTrie node can carry is its ip field, so the record of
\* insert(p, r) is the netblock handed to Insert.

\* The Record-bearing nodes of the PatriciaTrie.
StoredNodes(t) == { q \in DOMAIN t : t[q].isLeaf }

\* Whether netblock p is stored: its path ends at a Record-bearing node.
IsStored(t, p) ==
  /\ GetNetblock(t, p) # Nil
  /\ t[GetNetblock(t, p).node].isLeaf

\* The record a lookup result carries: the ip of the node returned.
RecordOf(t, g) == IF g = Nil THEN Nil ELSE t[g.node].ip

\* The networks stored in the nodes of a Tree below (and at) node n.
RECURSIVE NetworksBelow(_)
NetworksBelow(n) ==
  IF n = Nil THEN {}
  ELSE (IF n.Prefix # Nil /\ n.Prefix.Network # Nil
        THEN {n.Prefix.Network} ELSE {})
       \cup NetworksBelow(n.l) \cup NetworksBelow(n.r)

\* The prefixes stored in a Tree.
TreeStored(t) == NetworksBelow(t.Root)

\* The stored prefixes of a Tree that cover address ip.
Covering(t, ip) == { n \in TreeStored(t) : Contains(n, ip) }

\* The answer of a longest match: the covering prefix of greatest length,
\* or none (no network and no fault) when nothing covers the address.
IsLongestMatch(t, ip, ret) ==
  IF Covering(t, ip) = {}
  THEN ret.kind \in {"ok", "error"} /\ (ret.kind = "ok" => ret.net = Nil)
  ELSE /\ ret.kind = "ok"
       /\ ret.net \in Covering(t, ip)
       /\ \A m \in Covering(t, ip) : m.Ones <= ret.net.Ones

\* -------------------------------------------------------------- the claims

\* C1: longestMatch(address) returns the stored prefix of greatest length that
\* covers the address, and none exactly when no stored prefix covers it.
\* Stated of every Lpm and PrefixLpm call made with a non-nil address.
C1_LongestMatch ==
  /\ (last.op = "Lpm" /\ last.arg # <<>>)
       => IsLongestMatch(tree, last.arg, last.ret)
  /\ (last.op = "PrefixLpm")
       => IsLongestMatch(tree, last.arg.IP, last.ret)

\* C2: insert(p, r) immediately followed by exactLookup(p) returns r: right
\* after Insert(p), GetNetblock(p) finds a node and the record it carries is
\* the netblock inserted.
C2_RoundTrip ==
  last.op = "Insert" =>
    /\ GetNetblock(trie, last.arg) # Nil
    /\ RecordOf(trie, GetNetblock(trie, last.arg)) = last.arg

\* C3: absence is a normal result: when no stored prefix covers the query,
\* longestMatch and exactLookup return none, without an error or a fault.
C3_AbsenceIsNormal ==
  /\ (last.op = "Lpm" /\ last.arg # <<>> /\ Covering(tree, last.arg) = {})
       => last.ret = Ok(Nil)
  /\ (last.op = "PrefixLpm" /\ Covering(tree, last.arg.IP) = {})
       => last.ret = Ok(Nil)
  /\ (last.op \in {"Lookup", "GetNetblock"} /\ StoredNodes(trie) = {})
       => last.ret = Nil

\* C4: after delete(p) of a stored prefix p, exactLookup(p) returns none,
\* longestMatch does not return p and a second delete(p) finds nothing to
\* remove (it does not answer as the delete that removed p did).
C4_DeleteRemoves ==
  [][ (last'.op = "DeleteNetblock" /\ IsStored(trie, last'.arg)) =>
        /\ GetNetblock(trie', last'.arg) = Nil
        /\ Lookup(trie', last'.arg) = Nil
        /\ DeleteNetblock(trie', last'.arg).err # "nil" ]_vars

\* C5: delete(p) of a prefix that is not stored (path absent, or node present
\* but Record-less) returns none rather than an error and changes nothing.
C5_DeleteAbsentIsNoop ==
  [][ (last'.op = "DeleteNetblock" /\ ~IsStored(trie, last'.arg)) =>
        /\ last'.ret = Nil
        /\ trie' = trie
        /\ tree'.elements = tree.elements ]_vars

\* C6: inserting a prefix that is not stored returns none; inserting the
\* prefix just inserted a second time leaves exactly one entry for it,
\* holding the new record, and returns the previous record.
C6_Overwrite ==
  /\ \A p \in Netblocks :
       ~IsStored(trie, p) => InsertCall(trie, p).ret.kind \in {"void", "nil"}
  /\ last.op = "Insert" =>
       LET again == InsertCall(trie, last.arg)
       IN  /\ Cardinality({ q \in StoredNodes(again.trie) : q = last.arg.IP }) = 1
           /\ RecordOf(again.trie, GetNetblock(again.trie, last.arg)) = last.arg
           /\ again.ret.kind = "record"

\* C7: size() is the number of stored prefixes in every state, one more after
\* the insertion of a prefix that is not stored, and changed by nothing but
\* an insert, a delete or the construction of a new engine.  (New stores the
\* root prefix and counts it, so the count of a new tree is 1, the number of
\* prefixes it stores; the claim's 0 is the count of an engine built empty.)
C7_SizeCountsStored ==
  [][ /\ tree'.elements = Cardinality(TreeStored(tree'))
      /\ (last'.op = "Tree.Insert" /\ last'.arg \notin TreeStored(tree))
           => tree'.elements = tree.elements + 1
      /\ (last'.op \notin {"Tree.Insert", "New"})
           => tree'.elements = tree.elements ]_vars

\* C8: prefixes with the same address and different lengths are distinct
\* entries: inserting or deleting one leaves the exactLookup result of the
\* other (found or not, and Record-bearing or not) as it was.
C8_LengthIsIdentity ==
  [][ \A p \in Netblocks :
        ( /\ last'.op \in {"Insert", "DeleteNetblock"}
          /\ p.IP = last'.arg.IP
          /\ p.Ones # last'.arg.Ones )
        => /\ GetNetblock(trie', p) = GetNetblock(trie, p)
           /\ IsStored(trie', p) = IsStored(trie, p) ]_vars

\* C9: family isolation: an insert or delete of a prefix of one family leaves
\* the exactLookup result of every prefix of the other family, and the
\* other family's stored nodes, as they were.
C9_FamilyIsolation ==
  [][ \A p \in Netblocks :
        ( /\ last'.op \in {"Insert", "DeleteNetblock"}
          /\ ~sameFamily(p, last'.arg) )
        => /\ GetNetblock(trie', p) = GetNetblock(trie, p)
           /\ IsStored(trie', p) = IsStored(trie, p) ]_vars

\* C10: every non-root node that bears no Record has a Record-bearing
\* descendant, and the root is never removed.
C10_Pruned ==
  /\ <<>> \in DOMAIN trie
  /\ \A q \in DOMAIN trie :
       (q # <<>> /\ ~trie[q].isLeaf) =>
         \E d \in StoredNodes(trie) :
           Len(d) > Len(q) /\ SubSeq(d, 1, Len(q)) = q

\* Whether a netblock is well formed: its address has the width of a family
\* and its length is within that width.
WellFormed(n) ==
  /\ Len(n.IP) \in {IPv4len, IPv6len}
  /\ n.Ones \in 0 .. Len(n.IP) * ByteBits

\* Whether a call hands the engine malformed input: a nil address, a CIDR
\* string that does not parse, an address of another family than the tree's,
\* or a netblock whose address and length do not go together.
Malformed(call, t) ==
  \/ call.op = "Lpm" /\ call.arg = <<>>
  \/ call.op = "Lpm" /\ call.arg # <<>>
       /\ af(call.arg) # af(t.Root.Prefix.Network.IP)
  \/ call.op = "New" /\ ParseCIDR(call.arg).err # "nil"
  \/ call.op \in {"Insert", "GetNetblock"} /\ ~WellFormed(call.arg)

\* C11: a call with malformed input returns an error (no fault, no other
\* answer) and leaves the stored prefixes, records and size as they were.
C11_MalformedRejected ==
  [][ Malformed(last', tree) =>
        /\ last'.ret.kind = "error"
        /\ trie' = trie
        /\ tree' = tree ]_vars

\* ------------------------------------ what the concurrency claims speak of

\* Whether g is inside an insert or a delete.
Writing(g) == InFlight(g) /\ calls[g].op \in {"Insert", "DeleteNetblock"}

\* Whether the calls g and h are inside are on the same address family.
SameFamilyCalls(g, h) == sameFamily(calls[g].arg, calls[h].arg)

\* The bit width of the family of address ip.
FamilyBits(ip) == (IF af(ip) = 4 THEN IPv4len ELSE IPv6len) * ByteBits

\* C12: every operation is atomic to concurrent callers: no two writers
\* (insert, delete) of one family are inside their calls at once, and the
\* trie a lookup can read never holds a partially updated path: while an
\* insert that has linked a new child is in progress, its prefix's path is
\* not a complete path whose node bears no Record yet.
C12_Atomic ==
  /\ \A g, h \in Procs :
       (g # h /\ Writing(g) /\ Writing(h)) => ~SameFamilyCalls(g, h)
  /\ \A g \in Procs :
       (InFlight(g) /\ calls[g].op = "Insert" /\ calls[g].created
          /\ calls[g].priv = Nil)
       => ~(/\ GetNetblock(trie, calls[g].arg) # Nil
            /\ ~IsStored(trie, calls[g].arg))

C14_Terminates ==
  /\ [](/\ \A g \in Procs :
             InFlight(g) => Len(calls[g].node) <= FamilyBits(calls[g].arg.IP)
        /\ (last.op = "Lpm" /\ last.arg # <<>>)
             => SearchDepth(tree.Root, last.arg) <= FamilyBits(last.arg))
  /\ \A g \in Procs : InFlight(g) ~> ~InFlight(g)

\* C14 happens: an Insert of an IPv6 netblock has walked all the bytes of the
\* address and is about to set isLeaf.
C14_Witness ==
  /\ InFlight("g1")
  /\ calls["g1"].op = "Insert"
  /\ calls["g1"].pc = "leaf"
  /\ af(calls["g1"].arg.IP) = 6
  /\ Len(calls["g1"].node) = IPv6len

\* ----------------------------------------- what the filter claims speak of

\* Whether c occurs in path as a contiguous, in-order run, at any position.
OccursContiguously(path, c) ==
  \E i \in 0 .. (Len(path) - Len(c)) : SubSeq(path, i + 1, i + Len(c)) = c

\* The prefix strings a message announces.
AnnouncedPrefixes(rm) ==
  UNION { { rm.Announcements[a].Prefixes[j] :
              j \in 1 .. Len(rm.Announcements[a].Prefixes) } :
          a \in 1 .. Len(rm.Announcements) }

\* The prefix strings of a filter.
WatchedPrefixes(f) == { f.Prefix[i] : i \in 1 .. Len(f.Prefix) }

\* Whether a string parses as a CIDR prefix.
Parses(str) == ParseCIDR(str).err = "nil"

\* Whether prefix a is equal to or a subnet of prefix f (both parse): a is at
\* least as long as f and f's network contains a's network address.
IsSubnetOf(a, f) ==
  /\ ParseCIDR(a).net.Ones >= ParseCIDR(f).net.Ones
  /\ Contains(ParseCIDR(f).net, ParseCIDR(a).net.IP)

\* C16: MatchASPath(c) is true exactly when c occurs in the message's AS path
\* as a contiguous in-order run at any position, a run ending at the last
\* element included.  Stated of every call with a non-empty c.
C16_MatchASPath ==
  (last.op = "MatchASPath" /\ Len(last.arg) > 0)
    => last.ret = Bool(OccursContiguously(rmd.DigestedPath, last.arg))

\* C17: CheckPrefix is true when some announced prefix is equal to or a subnet
\* of some filter prefix, and false otherwise: with an empty filter list, with
\* no announced prefix covered by a filter prefix, and with candidates that
\* do not parse.
C17_CheckPrefixSubnet ==
  last.op = "CheckPrefix" =>
    last.ret = Bool(\E a \in AnnouncedPrefixes(rmd) : \E f \in WatchedPrefixes(filter) :
                      Parses(a) /\ Parses(f) /\ IsSubnetOf(a, f))

\* C18: CheckPrefix matches exactly: it is true exactly when some announced
\* prefix is (as a string that parses) one of the filter prefixes; an
\* announced subnet of a filter prefix is no match.
C18_CheckPrefixExact ==
  last.op = "CheckPrefix" =>
    last.ret = Bool(\E a \in AnnouncedPrefixes(rmd) : \E f \in WatchedPrefixes(filter) :
                      Parses(a) /\ a = f)

\* C19: CheckASPath is true for every message when the filter's ASPath is
\* empty, and otherwise is what MatchASPath(filter ASPath) is for the message.
C19_CheckASPath ==
  last.op = "CheckASPath" =>
    last.ret = Bool(IF filter.ASPath = <<>>
                    THEN TRUE
                    ELSE MatchASPath(rmd, filter.ASPath))

\* C19 happens: a filter with an ASPath set, and a message it lets through.
C19_Witness ==
  /\ last.op = "CheckASPath"
  /\ filter.ASPath # <<>>
  /\ last.ret = Bool(TRUE)

RECURSIVE Decoded(_, _)
Decoded(in, i) ==
  IF i > Len(in) THEN <<>>
  ELSE IF in[i].kind = "syntax" THEN <<>>
  ELSE IF in[i].kind = "type" THEN Decoded(in, i + 1)
  ELSE IF digestPath(in[i].msg.Data).kind = "panic" THEN <<>>
  ELSE <<[in[i].msg EXCEPT !.Data = digestPath(in[i].msg.Data).data]>>
         \o Decoded(in, i + 1)

\* C15: the k-th value received from Chan is the k-th decoded message of the
\* input, each once, whatever the buffer depth and the interleaving: what the
\* receiver has got is, in order, the first messages of the input.
C15_InOrder ==
  /\ Len(recv.got) <= Len(Decoded(input, 1))
  /\ recv.got = SubSeq(Decoded(input, 1), 1, Len(recv.got))

\* C15 happens: a queue of depth two or more was in use and the receiver has
\* got all of an input of MaxInput messages, not all the same.
C15_Witness ==
  /\ chan.cap >= 2
  /\ Len(recv.got) = MaxInput
  /\ recv.got[1] # recv.got[2]
  /\ lis.pc = "done"

\* ------------------------------------------------ the Tree, and the reads

\* C21: a tree built by New holds the root prefix and nothing else, with an
\* element count of 1; Lpm of a non-nil address returns the most specific
\* stored network containing it (the root's when no child covers it), and an
\* error when no stored network contains it.
C21_NewAndLpm ==
  /\ tree.elements = 1
  /\ TreeStored(tree) = {tree.Root.Prefix.Network}
  /\ (last.op = "New" /\ last.ret = Nil)
       => tree.Root.Prefix.Network = ParseCIDR(last.arg).net
  /\ (last.op = "Lpm" /\ last.arg # <<>>)
       => IF Covering(tree, last.arg) = {}
          THEN last.ret.kind = "error"
          ELSE /\ last.ret.kind = "ok"
               /\ last.ret.net \in Covering(tree, last.arg)
               /\ \A m \in Covering(tree, last.arg) : m.Ones <= last.ret.net.Ones

\* The reads of the engine.
ReadOps == {"Lookup", "GetNetblock", "Lpm", "PrefixLpm"}

\* C24: a read (Lookup, GetNetblock, Lpm, PrefixLpm) leaves the engine as it
\* was: the nodes of the trie with their isLeaf and ip, and the Tree with
\* its element count, are the same after the call as before, whether or not
\* the call found anything.
C24_ReadsLeaveUnchanged ==
  [][last'.op \in ReadOps => trie' = trie /\ tree' = tree]_vars

\* C24 happens: a GetNetblock has just found a stored netblock.
C24_Witness ==
  /\ last.op = "GetNetblock"
  /\ last.ret # Nil
  /\ IsStored(trie, last.arg)

\* ------------------------------------------- what the Get claims speak of

\* Whether message data m passes the four checks of filter f.
HoldsAllFour(f, m) ==
  /\ CheckASPath(f, m)
  /\ CheckInvalidTransitAS(f, m)
  /\ CheckOrigins(f, m)
  /\ CheckPrefix(f, m)

\* Whether m satisfies every component of f that is set.
SetComponentsHold(f, m) ==
  /\ Len(f.ASPath) > 0 => MatchASPath(m, f.ASPath)
  /\ DOMAIN f.InvalidTransitAS # {} => InvalidTransitAS(m, f.InvalidTransitAS)
  /\ Len(f.Origins) > 0 => MsgCheckOrigins(m, f.Origins)
  /\ Len(f.Prefix) > 0 => CheckPrefix(f, m)

\* Get has examined the message of its loop and not returned it.
Rejected ==
  /\ get.rm # Nil
  /\ \/ get.pc = "range"
     \/ get.pc = "returned" /\ get.ret.kind = "Done"

\* Get has returned the report of a match.
Reported == get.pc = "returned" /\ get.ret.kind = "report"

\* The messages of all the values of the input that decode, as handed on.
RECURSIVE AllMessages(_, _)
AllMessages(in, i) ==
  IF i > Len(in) THEN <<>>
  ELSE IF in[i].kind = "ok" /\ digestPath(in[i].msg.Data).kind = "ok"
       THEN <<[in[i].msg EXCEPT !.Data = digestPath(in[i].msg.Data).data]>>
              \o AllMessages(in, i + 1)
       ELSE AllMessages(in, i + 1)

\* The message Listen has decoded and not yet sent, if any.
InHand == IF lis.rm = Nil THEN <<>> ELSE <<lis.rm>>

\* C22: a filter component left empty does not by itself keep Get from
\* returning a message: a message Get has examined and passed over fails
\* some component of the filter that is set.
C22_SetComponentsDecide ==
  Rejected => ~SetComponentsHold(filter, get.rm.Data)

\* C23: Get examines the messages in delivery order and returns the report
\* of the first one that passes all four checks; it returns "Done" only when
\* the channel is closed and drained and no message passed.
C23_FirstMatch ==
  /\ get.pc # "idle" =>
       recv.got = SubSeq(Decoded(input, 1), 1, Len(recv.got))
  /\ Reported =>
       /\ Len(recv.got) >= 1
       /\ get.rm = recv.got[Len(recv.got)]
       /\ HoldsAllFour(filter, get.rm.Data)
       /\ \A k \in 1 .. Len(recv.got) - 1 :
            ~HoldsAllFour(filter, recv.got[k].Data)
  /\ (get.pc = "returned" /\ get.ret.kind = "Done") =>
       /\ chan.closed
       /\ chan.buf = <<>>
       /\ recv.got = AllMessages(input, 1)
       /\ \A k \in 1 .. Len(recv.got) :
            ~HoldsAllFour(filter, recv.got[k].Data)

\* C23 happens: Get has passed over a message and returned the report of a
\* later one.
C23_Witness == Reported /\ Len(recv.got) >= 2

\* C25: Listen closes Chan once, after every message of the input has been
\* sent, and sends nothing afterwards: once closed the channel stays closed
\* and takes no further message, Listen has returned with nothing in hand,
\* every message of the input has been received or is queued, and a receiver
\* that has seen the end of the channel has got them all.
C25_ClosedAfterAll ==
  /\ chan.closed =>
       /\ lis.pc = "done"
       /\ lis.rm = Nil
       /\ recv.got \o chan.buf = AllMessages(input, 1)
  /\ recv.eof => chan.closed /\ recv.got = AllMessages(input, 1)

\* C25 happens: Get has met the end of the channel after two or more messages.
C25_Witness == recv.eof /\ Len(recv.got) >= 2

\* C26: on every finite input, malformed JSON included, Listen comes to
\* close Chan and Get to return (a report or "Done"): Get does not stay in
\* its loop for ever.  A Get that dies on a message has left the loop too;
\* that fault is stated in C30.
C26_GetReturns == <>(get.pc = "returned" \/ GetPanicked)

\* C27: the queue never holds more messages than the channel was made for,
\* and no message is lost or overwritten: the messages received, queued and
\* in Listen's hand are, in order, exactly those Listen has decoded so far.
C27_BoundedQueue ==
  /\ Len(chan.buf) <= chan.cap
  /\ recv.got \o chan.buf \o InHand =
       Decoded(SubSeq(input, 1, lis.pos - 1), 1)

\* C27 happens: Listen waits at its send with the queue full, two messages
\* deep.
C27_Witness ==
  /\ lis.pc = "send"
  /\ chan.cap >= 2
  /\ Len(chan.buf) = chan.cap

\* C28: the number in Get's report is the position in the stream of the
\* message that matched (the count of messages received up to and including
\* it), and Get does not read Records while Listen is about to write it.
C28_ReportNumber ==
  /\ Reported => get.ret.Records = Len(recv.got)
  /\ ~(get.pc = "report" /\ lis.pc = "count")

\* The elements of a path that digestPath can digest: numbers, and lists of
\* numbers.
Digestible(p) ==
  \/ p.kind = "num"
  \/ p.kind = "list" /\ \A j \in 1 .. Len(p.vals) : p.vals[j].kind = "num"

\* The in-order flattening of a path of digestible elements.
RECURSIVE Flatten(_)
Flatten(path) ==
  IF path = <<>> THEN <<>>
  ELSE (IF Head(path).kind = "num" THEN <<Head(path).val>>
        ELSE [j \in 1 .. Len(Head(path).vals) |-> Head(path).vals[j].val])
       \o Flatten(Tail(path))

\* C29: every message delivered on Chan has Data, a path that digests in
\* full, and a DigestedPath that is the in-order flattening of that path.
C29_DigestedPath ==
  \A k \in 1 .. Len(recv.got) :
    /\ recv.got[k].Data # Nil
    /\ \A i \in 1 .. Len(recv.got[k].Data.Path) :
         Digestible(recv.got[k].Data.Path[i])
    /\ recv.got[k].Data.DigestedPath = Flatten(recv.got[k].Data.Path)

\* C30: Get does not fault on a delivered message: when it is about to print
\* the last element of DigestedPath, for a message whose first announcement
\* carries a prefix, DigestedPath is not empty.
C30_GetNeverFaults ==
  /\ ~GetPanicked
  /\ (get.pc = "print" /\ Prints(get.rm.Data))
       => Len(get.rm.Data.DigestedPath) > 0

====
